---------------------------- MODULE Spec2Model ----------------------------
(***************************************************************************)
(* The transfer-function editor of src/plot/DREXProTF.py (class            *)
(* MainWindow) as a state machine: one action per Qt slot, each running to *)
(* completion on the GUI thread; and the time-series viewer of             *)
(* src/plot/DREXtsplot.py (classes ATSReader and MainQAWindow), a second   *)
(* program with its own window, in the same way.                           *)
(*                                                                         *)
(* Numbers.  The JSON documents hold floats; the model keeps to values on  *)
(* which the code's float arithmetic is exact: frequencies are 0 or powers *)
(* of ten (so -log10(freq) is an integer), Re/Im are in {-1, 0, 1} (so the *)
(* phase is a multiple of 45 degrees), and the selection box has integer   *)
(* corners.  The amplitude 0.2 * 1/freq * re**2 + im**2 is a rational; it  *)
(* is compared with an integer bound after multiplying through by 5*freq.  *)
(***************************************************************************)
EXTENDS Integers, Sequences, FiniteSets, TLC

VARIABLES
    disk,          \* file name -> text stored in the directory (see JsonLoad)
    listed,        \* items of file_list_widget
    selected,      \* file_list_widget.selectedItems()
    whattoplot,    \* self.whattoplot
    active_data,   \* self.active_data: file -> record
    undo_stack,    \* self.undo_stack
    roi_visible,   \* self.roi_visible
    roi,           \* self.roi pos() and size()
    checked,       \* which of btn_amp, btn_ph, btn_re, btn_im are checked
    status,        \* the status bar's message
    raised,        \* the exception the last slot let escape, or "none"
    printed,       \* the files the last run of load_selected_data_into_memory printed
                   \* "Error loading ..." for
    dialog,        \* the last QMessageBox of save_changes_to_disk
    chain,         \* history: only successful deletions and undos since the stack was empty
    hist,          \* history: the live states before each deletion of the chain
    want,          \* history: <<s>> when the last step was an undo of the chain that owed s
    roiPre         \* history: the live state before the last run of delete_points_in_roi
                   \* with the box shown, kept over an undo that follows at once

\* the time-series viewer
VARIABLES
    num_samples,     \* self.kms_file.num_samples
    window_length,   \* self.window_length
    segment_number,  \* self.segment_number
    plot_all,        \* self.btn_plot_all.isChecked()
    sb_value,        \* self.scrollbar.value()
    sb_max,          \* self.scrollbar.maximum()
    controls_on,     \* scrollbar and spin_window are enabled
    ts_status,       \* self.status_label's text
    plotted,         \* what the last run of update_plot_data_only found and drew
    ts_raised        \* the exception the last slot of the viewer let escape, or "none"

viewer == <<num_samples, window_length, segment_number, plot_all, sb_value, sb_max,
            controls_on, ts_status, plotted, ts_raised>>

vars == <<disk, listed, selected, whattoplot, active_data, undo_stack,
          roi_visible, roi, checked, status, raised, printed, dialog,
          chain, hist, want, roiPre, viewer>>

-----------------------------------------------------------------------------
(* Program constants *)

UndoLimit == 50

ComponentLabels == {"xx", "xy", "yx", "yy", "det", "phd"}

Modes == {"amp", "ph", "re", "im"}

-----------------------------------------------------------------------------
(* Bounds of the model *)

\* pushes are explored up to this stack depth in Spec
MaxUndo == 2

\* a clicked point carries an index in 0 .. MaxClickIdx
MaxClickIdx == 2

\* pushes are explored up to this stack depth in SpecPersist
MaxUndoPersist == 1

-----------------------------------------------------------------------------
(* Files and their text *)

\* json.dump and json.load: the text of a file is kept as <<document>> when it
\* is the JSON text of document, and as <<>> when it is not JSON at all
JsonDump(doc) == <<doc>>

JsonLoad(text) == text[1]

\* json.load returns instead of raising JSONDecodeError
Parses(text) == text # <<>>

-----------------------------------------------------------------------------
(* The directory's documents: DocA and DocB are the documents' 'Data' *)

Files == {"a.json", "b.json"}

DocA ==
    [Freq |-> <<10, 1, 0>>,
     Z |-> [c \in {"xx", "xy"} |->
              IF c = "xy"
              THEN [Re |-> <<1, 0, 1>>, Im |-> <<0, 1, 0>>, Var |-> <<1, 2, 3>>]
              ELSE [Re |-> <<-1, 1, 0>>, Im |-> <<1, 1, 0>>, Var |-> <<0, 1, 0>>]]]

DocB ==
    [Freq |-> <<1>>,
     Z |-> [c \in {"xy"} |-> [Re |-> <<1>>, Im |-> <<-1>>, Var |-> <<4>>]]]

Directory ==
    [f \in Files |-> JsonDump([Data |-> IF f = "a.json" THEN DocA ELSE DocB])]

\* the labels the component buttons of the model offer
ModelLabels == {"xx", "xy", "yy"}

\* positions and sizes the selection box is given: <<x, y, width, height>>
Rects ==
    { <<0, 0, 1, 1>>, <<-1, 1, 1, 0>>, <<-1, 0, 1, 0>>,
      <<0, -1, 0, 2>>, <<-1, 0, 0, 0>>, <<1, 0, 1, 1>> }

-----------------------------------------------------------------------------
(* numpy helpers *)

\* a[mask] for a boolean mask of the same length
RECURSIVE BoolIndex(_, _)
BoolIndex(a, mask) ==
    IF a = <<>> THEN <<>>
    ELSE (IF Head(mask) THEN <<Head(a)>> ELSE <<>>) \o BoolIndex(Tail(a), Tail(mask))

\* a variant that drops the last element whatever the index
NpDeleteLast(a, idx) == SubSeq(a, 1, Len(a) - 1)

\* np.delete(a, idx) for 0 <= idx < len(a)
NpDelete(a, idx) ==
    [i \in 1..(Len(a) - 1) |-> IF i <= idx THEN a[i] ELSE a[i + 1]]

\* np.sum(mask)
RECURSIVE NpSum(_)
NpSum(mask) ==
    IF mask = <<>> THEN 0 ELSE (IF Head(mask) THEN 1 ELSE 0) + NpSum(Tail(mask))

\* np.log10 on the powers of ten
RECURSIVE Log10(_)
Log10(f) == IF f < 10 THEN 0 ELSE 1 + Log10(f \div 10)

\* np.angle(re + im*1j, deg=True) on the axes and diagonals
PhaseDeg(re, im) ==
    CASE im = 0 /\ re >= 0 -> 0
      [] im = 0 /\ re < 0 -> 180
      [] re = 0 /\ im > 0 -> 90
      [] re = 0 /\ im < 0 -> -90
      [] re > 0 /\ im > 0 -> 45
      [] re < 0 /\ im > 0 -> 135
      [] re > 0 /\ im < 0 -> -45
      [] OTHER -> -135

Last(s) == s[Len(s)]

Front(s) == SubSeq(s, 1, Len(s) - 1)


-----------------------------------------------------------------------------
(* Status bar messages *)

Msg(m) == [msg |-> m, n |-> 0]

MsgN(m, k) == [msg |-> m, n |-> k]

NoException == "none"

\* QMessageBox.information and QMessageBox.critical of save_changes_to_disk
NoDialog == [kind |-> "none", n |-> 0]

SavedDialog(count) == [kind |-> "information", n |-> count]

SaveErrorDialog == [kind |-> "critical", n |-> 0]

-----------------------------------------------------------------------------
(* load_selected_data_into_memory *)

\* the test 'Data' in json_data and 'Z' in json_data['Data']
HasDataZ(json_data) ==
    /\ "Data" \in DOMAIN json_data
    /\ "Z" \in DOMAIN json_data.Data

\* the body of that test completes for this document: the keys read exist and
\* every array takes the boolean mask built from Freq
Loads(json_data, comp) ==
    /\ comp \in DOMAIN json_data.Data.Z
    /\ "Freq" \in DOMAIN json_data.Data
    /\ {"Re", "Im", "Var"} \subseteq DOMAIN json_data.Data.Z[comp]
    /\ Len(json_data.Data.Z[comp].Re) = Len(json_data.Data.Freq)
    /\ Len(json_data.Data.Z[comp].Im) = Len(json_data.Data.Freq)
    /\ Len(json_data.Data.Z[comp].Var) = Len(json_data.Data.Freq)

\* a variant that keeps a zero frequency
ValidMaskNonNegative(freq) == [i \in 1..Len(freq) |-> freq[i] >= 0]

ValidMask(freq) == [i \in 1..Len(freq) |-> freq[i] > 0]

LoadRecord(json_data, comp) ==
    LET valid_mask == ValidMask(json_data.Data.Freq)
    IN  [freq |-> BoolIndex(json_data.Data.Freq, valid_mask),
         re |-> BoolIndex(json_data.Data.Z[comp].Re, valid_mask),
         im |-> BoolIndex(json_data.Data.Z[comp].Im, valid_mask),
         var |-> BoolIndex(json_data.Data.Z[comp].Var, valid_mask),
         original_json |-> json_data]

\* what one pass of the loop does with file f: "record" (an entry of
\* active_data), "printed" (an exception, caught and printed: open() on a file
\* that is gone, json.load on text that is not JSON, a missing key, a mask of
\* the wrong length) or "passed" (the test of 'Data' and 'Z' fails: nothing)
LoadOutcome(f, comp) ==
    IF f \notin DOMAIN disk THEN "printed"
    ELSE IF ~Parses(disk[f]) THEN "printed"
    ELSE IF ~HasDataZ(JsonLoad(disk[f])) THEN "passed"
    ELSE IF ~Loads(JsonLoad(disk[f]), comp) THEN "printed"
    ELSE "record"

LoadSelectedDataIntoMemory(sel, comp) ==
    [f \in {g \in sel : LoadOutcome(g, comp) = "record"} |->
        LoadRecord(JsonLoad(disk[f]), comp)]

\* the files of print(f"Error loading {file_name}: {e}")
ErrorsPrinted(sel, comp) == {f \in sel : LoadOutcome(f, comp) = "printed"}

-----------------------------------------------------------------------------
(* push_to_undo_stack *)

PushToUndoStack(stack, data) ==
    Append(IF Len(stack) > UndoLimit THEN Tail(stack) ELSE stack, data)

-----------------------------------------------------------------------------
(* delete_points_in_roi: the mask of one record *)

XMin(r) == r[1]
XMax(r) == r[1] + r[3]
YMin(r) == r[2]
YMax(r) == r[2] + r[4]

XVal(f) == 0 - Log10(f)

\* amp = 0.2 * 1/freq * re**2 + im**2, as the fraction AmpNum / AmpDen
AmpNum(f, re, im) == re * re + 5 * f * im * im
AmpDen(f) == 5 * f

\* (y >= y_min) & (y <= y_max) for the trace of one toggle button
YInBox(m, f, re, im, r) ==
    CASE m = "re" -> re >= YMin(r) /\ re <= YMax(r)
      [] m = "im" -> im >= YMin(r) /\ im <= YMax(r)
      [] m = "amp" -> /\ AmpNum(f, re, im) >= YMin(r) * AmpDen(f)
                      /\ AmpNum(f, re, im) <= YMax(r) * AmpDen(f)
      [] OTHER -> PhaseDeg(re, im) >= YMin(r) /\ PhaseDeg(re, im) <= YMax(r)

XInBox(f, r) == XVal(f) >= XMin(r) /\ XVal(f) <= XMax(r)

\* a variant that asks every active trace to lie in the box
MaskToDeleteAllModes(rec, r, chk) ==
    [i \in 1..Len(rec.freq) |->
        /\ chk # {}
        /\ \A m \in chk :
            XInBox(rec.freq[i], r) /\ YInBox(m, rec.freq[i], rec.re[i], rec.im[i], r)]

MaskToDelete(rec, r, chk) ==
    [i \in 1..Len(rec.freq) |->
        \E m \in chk :
            XInBox(rec.freq[i], r) /\ YInBox(m, rec.freq[i], rec.re[i], rec.im[i], r)]

IndicesToKeep(mask) == [i \in 1..Len(mask) |-> ~mask[i]]

FilterRecord(rec, r, chk) ==
    LET mask_to_delete == MaskToDelete(rec, r, chk)
        indices_to_keep == IndicesToKeep(mask_to_delete)
    IN  IF \E i \in 1..Len(mask_to_delete) : mask_to_delete[i]
        THEN [rec EXCEPT !.freq = BoolIndex(rec.freq, indices_to_keep),
                         !.re = BoolIndex(rec.re, indices_to_keep),
                         !.im = BoolIndex(rec.im, indices_to_keep),
                         !.var = BoolIndex(rec.var, indices_to_keep)]
        ELSE rec

RECURSIVE SumOver(_, _, _, _)
SumOver(keys, data, r, chk) ==
    IF keys = {} THEN 0
    ELSE LET k == CHOOSE x \in keys : TRUE
         IN  NpSum(MaskToDelete(data[k], r, chk)) + SumOver(keys \ {k}, data, r, chk)

PointsDeleted(data, r, chk) == SumOver(DOMAIN data, data, r, chk)

-----------------------------------------------------------------------------
(* History variables: the chain of deletions since the undo stack was empty *)

\* event: "delete" (a deletion that removed a point), "undo" (a snapshot was
\* popped), "undo0" (undo found the stack empty), "neutral" (data and stack
\* untouched), "break" (anything else)
Track(event, stack2) ==
    /\ chain' = IF stack2 = <<>> THEN TRUE
                ELSE /\ chain
                     /\ event # "break"
                     /\ (event = "delete" => Len(hist) < UndoLimit)
    /\ hist' = IF stack2 = <<>> \/ ~chain' THEN <<>>
               ELSE CASE event = "delete" -> Append(hist, active_data)
                      [] event = "undo" -> Front(hist)
                      [] OTHER -> hist
    /\ want' = IF event = "undo" /\ chain /\ hist # <<>> THEN <<Last(hist)>> ELSE <<>>
    /\ roiPre' = IF event \in {"undo", "undo0"} /\ roiPre # <<>> /\ roiPre[1].tag # "undone"
                 THEN <<[tag |-> "undone", data |-> roiPre[1].data]>>
                 ELSE <<>>

\* the same for a run of delete_points_in_roi
TrackRoi(event, stack2) ==
    /\ chain' = IF stack2 = <<>> THEN TRUE
                ELSE /\ chain
                     /\ event # "break"
                     /\ (event = "delete" => Len(hist) < UndoLimit)
    /\ hist' = IF stack2 = <<>> \/ ~chain' THEN <<>>
               ELSE IF event = "delete" THEN Append(hist, active_data) ELSE hist
    /\ want' = <<>>
    /\ roiPre' = IF roi_visible
                 THEN <<[tag |-> IF DOMAIN active_data = {} THEN "skipped" ELSE "deleted",
                         data |-> active_data]>>
                 ELSE <<>>

-----------------------------------------------------------------------------
(* The time-series viewer: ATSReader and the methods of MainQAWindow, as     *)
(* functions of the window's state v (a record of the viewer's variables).  *)
(* A signal whose slot is connected runs the slot inside the call that      *)
(* emits it.                                                                *)

\* _generate_mock_data
MockSamples == 200000

\* read_ats_file: the header's length and the bytes of one sample
HeaderOffset == 1024

SampleBytes == 4

\* self.window_length in __init__
InitialWindow == 2000

\* spin_window.setRange
WindowMin == 100

WindowMax == 1000000

\* the maximum of a new QScrollBar
ScrollbarDefaultMax == 99

\* the sizes in bytes of the files opened
FileSizes == {1024, 1224, 2024, 2624, 9024}

\* the values typed into spin_window
Windows == {100, 200, 2000}

\* the scrollbar is dragged to a position up to MaxScroll, or to its end
MaxScroll == 2

Min(a, b) == IF a <= b THEN a ELSE b

Max(a, b) == IF a >= b THEN a ELSE b

\* ATSReader(filename).num_samples; a file that cannot be read gives mock data
ReadAtsFile(file_size, readable) ==
    IF readable THEN (file_size - HeaderOffset) \div SampleBytes ELSE MockSamples

\* the length of get_data_slice(start_idx, end_idx)'s second axis
GetDataSlice(n, start_idx, end_idx) ==
    Max(0, Min(n, end_idx) - Max(0, start_idx))

NotPlotted == [reached |-> FALSE, start |-> 0, end |-> 0, x_len |-> 0, chunk_len |-> 0]

\* setRange with the signals blocked: the value is brought into the range and
\* valueChanged is not delivered
UpdateUiState(v) ==
    LET total_samples == v.num_samples
        safe_window == Max(1, v.window_length)
        n_segments == Max(0, (total_samples \div safe_window) - 1)
    IN  [v EXCEPT !.sb_max = n_segments,
                  !.sb_value = Min(v.sb_value, n_segments),
                  !.controls_on = ~v.plot_all]

\* curve.setData(x_axis, data_chunk[i]) raises when the lengths differ, and the
\* method ends there
UpdatePlotDataOnly(v) ==
    LET start == IF v.plot_all THEN 0 ELSE v.segment_number * v.window_length
        end == IF v.plot_all THEN v.num_samples ELSE start + v.window_length
        data_chunk == GetDataSlice(v.num_samples, start, end)
        x_axis == end - start
    IN  IF data_chunk = 0
        THEN [v EXCEPT !.status = "No data available.",
                       !.plotted = [reached |-> FALSE, start |-> start, end |-> end,
                                    x_len |-> 0, chunk_len |-> 0]]
        ELSE [v EXCEPT !.status = IF x_axis = data_chunk THEN "View" ELSE v.status,
                       !.raised = IF x_axis = data_chunk THEN v.raised ELSE "Exception",
                       !.plotted = [reached |-> TRUE, start |-> start, end |-> end,
                                    x_len |-> x_axis, chunk_len |-> data_chunk]]

\* the last run of update_plot_data_only ended in the exception of setData
PlotRaised(v) == v.plotted.reached /\ v.plotted.x_len # v.plotted.chunk_len

ActionPlotAllToggled(v, is_checked) ==
    LET drawn == UpdatePlotDataOnly(UpdateUiState(v))
    IN  IF PlotRaised(drawn) THEN drawn
        ELSE [drawn EXCEPT !.status = IF is_checked THEN "Plotting ALL samples"
                                      ELSE "Switched to Segment Mode"]

\* btn_plot_all.setChecked(b): toggled is emitted when the state changes
SetChecked(v, b) ==
    IF v.plot_all = b THEN v ELSE ActionPlotAllToggled([v EXCEPT !.plot_all = b], b)

OnScrollInteraction(v, val) ==
    LET segment_mode == IF v.plot_all THEN UpdateUiState(SetChecked(v, FALSE)) ELSE v
    IN  UpdatePlotDataOnly([segment_mode EXCEPT !.segment_number = val])

\* scrollbar.setValue(val): valueChanged is emitted when the value changes
SetValue(v, val) ==
    IF v.sb_value = val THEN v ELSE OnScrollInteraction([v EXCEPT !.sb_value = val], val)

OnWindowLengthChanged(v, val) ==
    LET ranged == UpdateUiState(SetChecked([v EXCEPT !.window_length = val], FALSE))
        clamped == IF ranged.sb_max < ranged.segment_number
                   THEN SetValue([ranged EXCEPT !.segment_number = 0], 0)
                   ELSE ranged
    IN  UpdatePlotDataOnly(clamped)

\* replot_all: update_plot_data_only, then force_auto_scale
ReplotAll(v) == UpdatePlotDataOnly(v)

OpenFileDialog(v, samples) ==
    ReplotAll(UpdateUiState(SetChecked([v EXCEPT !.num_samples = samples], FALSE)))

\* MainQAWindow.__init__: the state variables, init_ui, update_ui_state, replot_all
ViewerNew ==
    ReplotAll(UpdateUiState(
        [num_samples |-> MockSamples, window_length |-> InitialWindow,
         segment_number |-> 0, plot_all |-> FALSE, sb_value |-> 0,
         sb_max |-> ScrollbarDefaultMax, controls_on |-> TRUE, status |-> "Ready",
         plotted |-> NotPlotted, raised |-> NoException]))

\* the window's state now, with no exception pending
ViewerNow ==
    [num_samples |-> num_samples, window_length |-> window_length,
     segment_number |-> segment_number, plot_all |-> plot_all, sb_value |-> sb_value,
     sb_max |-> sb_max, controls_on |-> controls_on, status |-> ts_status,
     plotted |-> plotted, raised |-> NoException]

ViewerIs(v) ==
    /\ num_samples = v.num_samples
    /\ window_length = v.window_length
    /\ segment_number = v.segment_number
    /\ plot_all = v.plot_all
    /\ sb_value = v.sb_value
    /\ sb_max = v.sb_max
    /\ controls_on = v.controls_on
    /\ ts_status = v.status
    /\ plotted = v.plotted
    /\ ts_raised = v.raised

ViewerBecomes(v) ==
    /\ num_samples' = v.num_samples
    /\ window_length' = v.window_length
    /\ segment_number' = v.segment_number
    /\ plot_all' = v.plot_all
    /\ sb_value' = v.sb_value
    /\ sb_max' = v.sb_max
    /\ controls_on' = v.controls_on
    /\ ts_status' = v.status
    /\ plotted' = v.plotted
    /\ ts_raised' = v.raised

-----------------------------------------------------------------------------
(* The state after MainWindow.__init__ *)

NoData == [f \in {} |-> {}]

Constructed ==
    /\ listed = {}
    /\ selected = {}
    /\ whattoplot = "xy"
    /\ active_data = NoData
    /\ undo_stack = <<>>
    /\ roi_visible = FALSE
    /\ roi = <<0, 0, 1, 1>>
    /\ checked = {"amp"}
    /\ status = Msg("")
    /\ raised = NoException
    /\ printed = {}
    /\ dialog = NoDialog
    /\ chain = TRUE
    /\ hist = <<>>
    /\ want = <<>>
    /\ roiPre = <<>>

Init == disk = Directory /\ Constructed /\ ViewerIs(ViewerNew)

-----------------------------------------------------------------------------
(* Slots *)

\* a directory is chosen in the dialog; clearing the list empties the selection
OpenDirectoryDialog ==
    /\ listed' = DOMAIN disk
    /\ selected' = {}
    /\ active_data' = NoData
    /\ undo_stack' = <<>>
    /\ status' = MsgN("Loaded files.", Cardinality(DOMAIN disk))
    /\ raised' = NoException
    /\ printed' = IF selected = {} THEN printed ELSE {}
    /\ Track("break", <<>>)
    /\ UNCHANGED <<disk, whattoplot, roi_visible, roi, checked, dialog, viewer>>

HandleComponentChange(label) ==
    /\ whattoplot' = label
    /\ undo_stack' = <<>>
    /\ active_data' = LoadSelectedDataIntoMemory(selected, label)
    /\ raised' = NoException
    /\ printed' = ErrorsPrinted(selected, label)
    /\ Track("break", <<>>)
    /\ UNCHANGED <<disk, listed, selected, roi_visible, roi, checked, status, dialog,
                   viewer>>

\* the user changes the selection of the file list to sel
OnFileSelectionChanged(sel) ==
    /\ sel \subseteq listed
    /\ sel # selected
    /\ selected' = sel
    /\ active_data' = LoadSelectedDataIntoMemory(sel, whattoplot)
    /\ raised' = NoException
    /\ printed' = ErrorsPrinted(sel, whattoplot)
    /\ Track("break", undo_stack)
    /\ UNCHANGED <<disk, listed, whattoplot, undo_stack, roi_visible, roi, checked, status,
                   dialog, viewer>>

\* btn_roi is checkable: a click shows the box (placed from the view range, here
\* any rectangle r) or hides it
ToggleRoi(r) ==
    /\ IF ~roi_visible
       THEN roi' = r /\ roi_visible' = TRUE
       ELSE roi' = roi /\ roi_visible' = FALSE
    /\ raised' = NoException
    /\ Track("neutral", undo_stack)
    /\ UNCHANGED <<disk, listed, selected, whattoplot, active_data, undo_stack, checked, status,
                   printed, dialog, viewer>>

\* the user drags or resizes the visible box
MoveRoi(r) ==
    /\ roi_visible
    /\ r # roi
    /\ roi' = r
    /\ Track("neutral", undo_stack)
    /\ UNCHANGED <<disk, listed, selected, whattoplot, active_data, undo_stack,
                   roi_visible, checked, status, raised, printed, dialog, viewer>>

\* the four plot toggles sit in one exclusive button group
ClickModeButton(b) ==
    /\ b \notin checked
    /\ checked' = {b}
    /\ raised' = NoException
    /\ Track("neutral", undo_stack)
    /\ UNCHANGED <<disk, listed, selected, whattoplot, active_data, undo_stack,
                   roi_visible, roi, status, printed, dialog, viewer>>

DeletePointsInRoi ==
    IF ~roi_visible \/ DOMAIN active_data = {}
    THEN /\ raised' = NoException
         /\ TrackRoi("neutral", undo_stack)
         /\ UNCHANGED <<disk, listed, selected, whattoplot, active_data, undo_stack,
                        roi_visible, roi, checked, status, printed, dialog, viewer>>
    ELSE LET points_deleted == PointsDeleted(active_data, roi, checked)
             pushed == PushToUndoStack(undo_stack, active_data)
         IN  /\ undo_stack' = pushed
             /\ active_data' = [f \in DOMAIN active_data |->
                                   FilterRecord(active_data[f], roi, checked)]
             /\ status' = IF points_deleted > 0
                          THEN MsgN("Deleted points inside region.", points_deleted)
                          ELSE Msg("No points found inside the selection box.")
             /\ raised' = NoException
             /\ TrackRoi(IF points_deleted > 0 THEN "delete" ELSE "break", pushed)
             /\ UNCHANGED <<disk, listed, selected, whattoplot, roi_visible, roi, checked,
                            printed, dialog, viewer>>

\* a variant whose np.delete wraps an index past the end to the last element
DeleteFromBlockWrapping(data_block, idx) ==
    LET k(a) == IF idx >= Len(a) THEN Len(a) - 1 ELSE idx
    IN  IF data_block.freq = <<>> THEN [ok |-> FALSE, block |-> data_block]
        ELSE [ok |-> TRUE,
              block |-> [data_block EXCEPT
                            !.freq = NpDelete(data_block.freq, k(data_block.freq)),
                            !.re = NpDelete(data_block.re, k(data_block.re)),
                            !.im = NpDelete(data_block.im, k(data_block.im)),
                            !.var = NpDelete(data_block.var, k(data_block.var))]]

\* np.delete on the four arrays in turn; the first index out of bounds raises
\* and leaves the later arrays as they were
DeleteFromBlock(data_block, idx) ==
    LET b1 == [data_block EXCEPT !.freq = NpDelete(data_block.freq, idx)]
        b2 == [b1 EXCEPT !.re = NpDelete(data_block.re, idx)]
        b3 == [b2 EXCEPT !.im = NpDelete(data_block.im, idx)]
        b4 == [b3 EXCEPT !.var = NpDelete(data_block.var, idx)]
    IN  IF idx >= Len(data_block.freq) THEN [ok |-> FALSE, block |-> data_block]
        ELSE IF idx >= Len(data_block.re) THEN [ok |-> FALSE, block |-> b1]
        ELSE IF idx >= Len(data_block.im) THEN [ok |-> FALSE, block |-> b2]
        ELSE IF idx >= Len(data_block.var) THEN [ok |-> FALSE, block |-> b3]
        ELSE [ok |-> TRUE, block |-> b4]

\* sigClicked with points[0].data() = {'file': file_path, 'idx': idx_to_remove}
OnPointClicked(file_path, idx_to_remove) ==
    /\ file_path \in DOMAIN active_data
    /\ LET pushed == PushToUndoStack(undo_stack, active_data)
           res == DeleteFromBlock(active_data[file_path], idx_to_remove)
       IN  /\ undo_stack' = pushed
           /\ active_data' = [active_data EXCEPT ![file_path] = res.block]
           /\ status' = IF res.ok THEN Msg("Point deleted. (Ctrl+Z to Undo)")
                        ELSE Msg("State saved to Undo history.")
           /\ raised' = IF res.ok THEN NoException ELSE "IndexError"
           /\ Track(IF res.ok THEN "delete" ELSE "break", pushed)
    /\ UNCHANGED <<disk, listed, selected, whattoplot, roi_visible, roi, checked,
                   printed, dialog, viewer>>

\* a variant that takes the oldest entry, pop(0)
UndoPopOldest(stack) == [restored |-> Head(stack), rest |-> Tail(stack)]

\* a variant without the emptiness test: list.pop() raises on the empty stack
UndoLastActionUnguarded ==
    IF undo_stack = <<>>
    THEN /\ raised' = "IndexError"
         /\ Track("undo0", undo_stack)
         /\ UNCHANGED <<disk, listed, selected, whattoplot, active_data, undo_stack,
                        roi_visible, roi, checked, status, printed, dialog, viewer>>
    ELSE /\ active_data' = Last(undo_stack)
         /\ undo_stack' = Front(undo_stack)
         /\ status' = Msg("Undo successful.")
         /\ raised' = NoException
         /\ Track("undo", Front(undo_stack))
         /\ UNCHANGED <<disk, listed, selected, whattoplot, roi_visible, roi, checked,
                        printed, dialog, viewer>>

\* self.undo_stack.pop(): the entry taken and the stack left
UndoPop(stack) == [restored |-> Last(stack), rest |-> Front(stack)]

UndoLastAction ==
    IF undo_stack = <<>>
    THEN /\ status' = Msg("Nothing to Undo.")
         /\ raised' = NoException
         /\ Track("undo0", undo_stack)
         /\ UNCHANGED <<disk, listed, selected, whattoplot, active_data, undo_stack,
                        roi_visible, roi, checked, printed, dialog, viewer>>
    ELSE /\ active_data' = UndoPop(undo_stack).restored
         /\ undo_stack' = UndoPop(undo_stack).rest
         /\ status' = Msg("Undo successful.")
         /\ raised' = NoException
         /\ Track("undo", UndoPop(undo_stack).rest)
         /\ UNCHANGED <<disk, listed, selected, whattoplot, roi_visible, roi, checked,
                        printed, dialog, viewer>>

-----------------------------------------------------------------------------
(* save_changes_to_disk *)

\* the orders in which a dict with keys S can be walked
Orders(S) ==
    {s \in [1..Cardinality(S) -> S] : \A i, j \in 1..Cardinality(S) : s[i] = s[j] => i = j}

\* a variant that leaves Data.Freq as it was loaded
WrittenJsonOldFreq(modified_data, comp) ==
    [modified_data.original_json EXCEPT
        !.Data.Z[comp].Re = modified_data.re,
        !.Data.Z[comp].Im = modified_data.im,
        !.Data.Z[comp].Var = modified_data.var]

\* full_json after the four assignments of one pass of the loop
WrittenJson(modified_data, comp) ==
    [modified_data.original_json EXCEPT
        !.Data.Freq = modified_data.freq,
        !.Data.Z[comp].Re = modified_data.re,
        !.Data.Z[comp].Im = modified_data.im,
        !.Data.Z[comp].Var = modified_data.var]

\* a variant that passes over the file whose write failed and goes on
WrittenSkippingFailure(order, fail_at) ==
    {order[k] : k \in 1..Len(order)} \ {order[k] : k \in {fail_at} \cap 1..Len(order)}

\* the files whose pass of the loop ran to count += 1, when the write of the
\* file at position fail_at of the walk raises (fail_at = 0: no write raises);
\* the exception leaves the loop
Written(order, fail_at) ==
    {order[k] : k \in 1..(IF fail_at = 0 THEN Len(order) ELSE fail_at - 1)}

\* the files whose full_json was assigned to
Assigned(order, fail_at) ==
    {order[k] : k \in 1..(IF fail_at = 0 THEN Len(order) ELSE fail_at)}

\* active_data is walked in the order given; the write at position fail_at
\* raises, either in open() (the file stays as it was) or in json.dump after
\* open() has emptied the file (torn: the text left is not JSON)
SaveChangesToDisk(order, fail_at, torn) ==
    IF DOMAIN active_data = {}
    THEN /\ raised' = NoException
         /\ Track("neutral", undo_stack)
         /\ UNCHANGED <<disk, listed, selected, whattoplot, active_data, undo_stack,
                        roi_visible, roi, checked, status, printed, dialog, viewer>>
    ELSE /\ order \in Orders(DOMAIN active_data)
         /\ fail_at \in 0..Len(order)
         /\ torn => fail_at > 0
         /\ LET written == Written(order, fail_at)
                emptied == IF torn THEN {order[fail_at]} ELSE {}
            IN  /\ active_data' =
                       [f \in DOMAIN active_data |->
                           IF f \in Assigned(order, fail_at)
                           THEN [active_data[f] EXCEPT
                                    !.original_json = WrittenJson(active_data[f], whattoplot)]
                           ELSE active_data[f]]
                /\ disk' =
                       [f \in DOMAIN disk \cup written \cup emptied |->
                           IF f \in written
                           THEN JsonDump(WrittenJson(active_data[f], whattoplot))
                           ELSE IF f \in emptied THEN <<>> ELSE disk[f]]
                /\ dialog' = IF fail_at = 0 THEN SavedDialog(Cardinality(written))
                             ELSE SaveErrorDialog
         /\ raised' = NoException
         /\ Track("break", undo_stack)
         /\ UNCHANGED <<listed, selected, whattoplot, undo_stack, roi_visible, roi, checked,
                        status, printed, viewer>>

-----------------------------------------------------------------------------
(* The editor, with the undo history explored to depth MaxUndo *)

Next ==
    \/ OpenDirectoryDialog
    \/ \E label \in ModelLabels : HandleComponentChange(label)
    \/ \E sel \in SUBSET Files : OnFileSelectionChanged(sel)
    \/ \E r \in Rects : ToggleRoi(r)
    \/ \E r \in Rects : MoveRoi(r)
    \/ \E b \in Modes : ClickModeButton(b)
    \/ Len(undo_stack) < MaxUndo /\ DeletePointsInRoi
    \/ /\ Len(undo_stack) < MaxUndo
       /\ \E f \in Files, i \in 0..MaxClickIdx : OnPointClicked(f, i)
    \/ UndoLastAction

Spec == Init /\ [][Next]_vars

-----------------------------------------------------------------------------
(* The editor on one long record, with the undo history explored past       *)
(* UndoLimit: the first selection, the box shown, region deletions that     *)
(* match, clicks on the first point, undo                                   *)

DeepPoints == UndoLimit + 2

DeepDoc ==
    [Freq |-> [i \in 1..DeepPoints |-> 1],
     Z |-> [c \in {"xy"} |-> [Re |-> [i \in 1..DeepPoints |-> 1],
                              Im |-> [i \in 1..DeepPoints |-> 0],
                              Var |-> [i \in 1..DeepPoints |-> 1]]]]

DeepDirectory == [f \in {"a.json"} |-> JsonDump([Data |-> DeepDoc])]

InitDeep == disk = DeepDirectory /\ Constructed /\ ViewerIs(ViewerNew)

NextDeep ==
    \/ OpenDirectoryDialog
    \/ undo_stack = <<>> /\ OnFileSelectionChanged({"a.json"})
    \/ ~roi_visible /\ ToggleRoi(<<0, 0, 1, 1>>)
    \/ PointsDeleted(active_data, roi, checked) > 0 /\ DeletePointsInRoi
    \/ /\ "a.json" \in DOMAIN active_data
       /\ active_data["a.json"].freq # <<>>
       /\ OnPointClicked("a.json", 0)
    \/ UndoLastAction

SpecDeep == InitDeep /\ [][NextDeep]_vars

-----------------------------------------------------------------------------
(* The editor with saving: selections, component switches, clicks, undo and *)
(* save_changes_to_disk, whose writes may fail                              *)

NextPersist ==
    \/ OpenDirectoryDialog
    \/ \E label \in {"xx", "xy"} : HandleComponentChange(label)
    \/ \E sel \in SUBSET Files : OnFileSelectionChanged(sel)
    \/ /\ Len(undo_stack) < MaxUndoPersist
       /\ \E f \in Files, i \in 0..MaxClickIdx : OnPointClicked(f, i)
    \/ UndoLastAction
    \/ \E order \in Orders(DOMAIN active_data), fail_at \in 0..Cardinality(DOMAIN active_data),
          torn \in BOOLEAN : SaveChangesToDisk(order, fail_at, torn)

SpecPersist == Init /\ [][NextPersist]_vars

-----------------------------------------------------------------------------
(* Loading from a directory that also holds files the loop cannot use:      *)
(* c.json is not JSON, d.json has no 'Data', e.json has 'Data' without 'Z', *)
(* g.json has a Var shorter than Freq, h.json has no 'Freq'; b.json has no  *)
(* component xx; and any file may be gone by the time it is opened          *)

LoadFiles == {"a.json", "b.json", "c.json", "d.json", "e.json", "g.json", "h.json"}

DocG ==
    [Freq |-> <<10, 1>>,
     Z |-> [c \in {"xx", "xy"} |-> [Re |-> <<1, 1>>, Im |-> <<0, 0>>, Var |-> <<1>>]]]

DocH == [Z |-> [c \in {"xx", "xy"} |-> [Re |-> <<1>>, Im |-> <<0>>, Var |-> <<1>>]]]

LoadDirectory ==
    [f \in LoadFiles |->
        CASE f = "a.json" -> JsonDump([Data |-> DocA])
          [] f = "b.json" -> JsonDump([Data |-> DocB])
          [] f = "c.json" -> <<>>
          [] f = "d.json" -> JsonDump([Site |-> "s1"])
          [] f = "e.json" -> JsonDump([Data |-> [Freq |-> <<1>>]])
          [] f = "g.json" -> JsonDump([Data |-> DocG])
          [] OTHER -> JsonDump([Data |-> DocH])]

InitLoad == disk = LoadDirectory /\ Constructed /\ ViewerIs(ViewerNew)

\* a file of the directory is deleted outside the program
FileRemoved(f) ==
    /\ f \in DOMAIN disk
    /\ disk' = [g \in DOMAIN disk \ {f} |-> disk[g]]
    /\ Track("neutral", undo_stack)
    /\ UNCHANGED <<listed, selected, whattoplot, active_data, undo_stack, roi_visible, roi,
                   checked, status, raised, printed, dialog, viewer>>

NextLoad ==
    \/ OpenDirectoryDialog
    \/ \E label \in {"xx", "xy"} : HandleComponentChange(label)
    \/ \E sel \in SUBSET LoadFiles : OnFileSelectionChanged(sel)
    \/ \E f \in {"a.json", "d.json"} : FileRemoved(f)

SpecLoad == InitLoad /\ [][NextLoad]_vars

-----------------------------------------------------------------------------
(* The time-series viewer's slots, and the viewer run on its own *)

\* the editor's variables
editor == <<disk, listed, selected, whattoplot, active_data, undo_stack,
            roi_visible, roi, checked, status, raised, printed, dialog,
            chain, hist, want, roiPre>>

\* "Open ATS" with a file of file_size bytes chosen in the dialog
OpenAts(file_size, readable) ==
    /\ ViewerBecomes(OpenFileDialog(ViewerNow, ReadAtsFile(file_size, readable)))
    /\ UNCHANGED editor

\* the user sets spin_window, which is enabled, to val
SpinWindow(val) ==
    /\ controls_on
    /\ WindowMin <= val /\ val <= WindowMax
    /\ val # window_length
    /\ ViewerBecomes(OnWindowLengthChanged(ViewerNow, val))
    /\ UNCHANGED editor

\* the user moves the scrollbar, which is enabled, to val
Scroll(val) ==
    /\ controls_on
    /\ val \in 0..sb_max
    /\ val # sb_value
    /\ ViewerBecomes(OnScrollInteraction([ViewerNow EXCEPT !.sb_value = val], val))
    /\ UNCHANGED editor

\* the user clicks "Plot All"
TogglePlotAll ==
    /\ ViewerBecomes(ActionPlotAllToggled([ViewerNow EXCEPT !.plot_all = ~plot_all],
                                          ~plot_all))
    /\ UNCHANGED editor

\* on_channel_count_changed: the layout is rebuilt and the data drawn again
SpinChannels ==
    /\ ViewerBecomes(ReplotAll(ViewerNow))
    /\ UNCHANGED editor

NextViewer ==
    \/ \E file_size \in FileSizes, readable \in BOOLEAN : OpenAts(file_size, readable)
    \/ \E val \in Windows : SpinWindow(val)
    \/ \E val \in 0..sb_max : (val <= MaxScroll \/ val = sb_max) /\ Scroll(val)
    \/ TogglePlotAll
    \/ SpinChannels

SpecViewer == Init /\ [][NextViewer]_vars

-----------------------------------------------------------------------------
(* delete_points_in_roi as a function of the records, the box and the       *)
(* toggles.  The slot reads isChecked() of each of the four buttons on its  *)
(* own; here it is run from every box and every combination of toggles on   *)
(* the loaded directory, also those the exclusive button group keeps the    *)
(* window from showing.                                                     *)

InitMask ==
    /\ disk = Directory
    /\ listed = Files
    /\ selected = Files
    /\ whattoplot \in {"xx", "xy"}
    /\ active_data = LoadSelectedDataIntoMemory(Files, whattoplot)
    /\ undo_stack = <<>>
    /\ roi_visible = TRUE
    /\ roi \in Rects
    /\ checked \in SUBSET Modes
    /\ status = Msg("")
    /\ raised = NoException
    /\ printed = ErrorsPrinted(Files, whattoplot)
    /\ dialog = NoDialog
    /\ chain = TRUE
    /\ hist = <<>>
    /\ want = <<>>
    /\ roiPre = <<>>
    /\ ViewerIs(ViewerNew)

NextMask ==
    \/ \E r \in Rects : MoveRoi(r)
    \/ Len(undo_stack) < MaxUndo /\ DeletePointsInRoi
    \/ UndoLastAction

SpecMask == InitMask /\ [][NextMask]_vars

-----------------------------------------------------------------------------
(* The quantities the properties are stated in *)

\* the four sequences of every record
Seqs(data) ==
    [f \in DOMAIN data |-> <<data[f].freq, data[f].re, data[f].im, data[f].var>>]

\* seq without the positions in D, in the original order
Survivors(seq, D) ==
    LET K == {i \in 1..Len(seq) : i \notin D}
    IN  [k \in 1..Cardinality(K) |->
            seq[CHOOSE i \in K : Cardinality({j \in K : j <= i}) = k]]

\* y_min <= y <= y_max for the derived quantity of a display mode:
\* re, im, amplitude 0.2 / freq * (re^2 + im^2), phase atan2(im, re) in degrees
DerivedInY(m, f, re, im, r) ==
    CASE m = "re" -> r[2] <= re /\ re <= r[2] + r[4]
      [] m = "im" -> r[2] <= im /\ im <= r[2] + r[4]
      [] m = "amp" -> /\ 5 * f * r[2] <= re * re + im * im
                      /\ re * re + im * im <= 5 * f * (r[2] + r[4])
      [] OTHER -> r[2] <= PhaseDeg(re, im) /\ PhaseDeg(re, im) <= r[2] + r[4]

\* the positions of rec inside region r for at least one mode of chk
InRegion(rec, r, chk) ==
    {i \in 1..Len(rec.freq) :
        /\ r[1] <= 0 - Log10(rec.freq[i])
        /\ 0 - Log10(rec.freq[i]) <= r[1] + r[3]
        /\ \E m \in chk : DerivedInY(m, rec.freq[i], rec.re[i], rec.im[i], r)}

\* the four sequences of every record with the positions inside the region removed
WithoutRegion(data, r, chk) ==
    [f \in DOMAIN data |->
        <<Survivors(data[f].freq, InRegion(data[f], r, chk)),
          Survivors(data[f].re, InRegion(data[f], r, chk)),
          Survivors(data[f].im, InRegion(data[f], r, chk)),
          Survivors(data[f].var, InRegion(data[f], r, chk))>>]

\* file f is on disk and is a JSON document with Data.Freq and
\* Data.Z[comp].Re, Im, Var, all of one length
WellFormedFor(f, comp) ==
    /\ f \in DOMAIN disk
    /\ disk[f] # <<>>
    /\ LET doc == disk[f][1]
       IN  /\ "Data" \in DOMAIN doc
           /\ {"Freq", "Z"} \subseteq DOMAIN doc.Data
           /\ comp \in DOMAIN doc.Data.Z
           /\ {"Re", "Im", "Var"} \subseteq DOMAIN doc.Data.Z[comp]
           /\ \A k \in {"Re", "Im", "Var"} :
                 Len(doc.Data.Z[comp][k]) = Len(doc.Data.Freq)

\* the last step ran delete_points_in_roi past its guard
RegionDeleted == roiPre # <<>> /\ roiPre[1].tag = "deleted"

\* the last two steps were delete_points_in_roi with the box shown, then undo
RegionDeletedThenUndone == roiPre # <<>> /\ roiPre[1].tag = "undone"

-----------------------------------------------------------------------------
(* C1: the undo stack never holds more than 50 entries (after 51 pushes the *)
(* first snapshot is gone).                                                 *)
C1_StackAtMostFifty == Len(undo_stack) <= UndoLimit

(* C2: every slot that replaces the active record set wholesale (a new      *)
(* directory, a component switch, a changed file selection) leaves the undo *)
(* stack empty.                                                             *)
C2_ReplacementClearsUndo ==
    [][(\/ OpenDirectoryDialog
        \/ \E label \in ModelLabels : HandleComponentChange(label)
        \/ \E sel \in SUBSET Files : OnFileSelectionChanged(sel))
       => undo_stack' = <<>>]_vars

(* C3: delete_points_in_roi with the box shown, followed at once by undo,   *)
(* gives back the record keys and the freq, re, im and var sequences the    *)
(* record set had before the deletion.                                      *)
C3_RegionDeleteUndoRoundTrip ==
    RegionDeletedThenUndone => Seqs(active_data) = Seqs(roiPre[1].data)

(* C4: from an empty undo stack, after k <= 50 deletions that each removed  *)
(* a point, the stack holds the k states as they were before each deletion, *)
(* oldest first, and each undo installs the most recent of them.            *)
C4_UndoChainLifo ==
    chain => /\ undo_stack = hist
             /\ want # <<>> => active_data = want[1]

C4_FiftyDeletionsThenUndo ==
    chain /\ want # <<>> /\ Len(hist) = UndoLimit - 1 /\ active_data = want[1]

(* C5: with the active modes among re and im, a region deletion removes     *)
(* from each record exactly the positions whose x lies in [x_min, x_max]    *)
(* and whose re or im (of an active mode) lies in [y_min, y_max], from all  *)
(* four sequences alike, keeping the order of the rest.                     *)
C5_RegionMaskReIm ==
    (RegionDeleted /\ checked \subseteq {"re", "im"})
        => Seqs(active_data) = WithoutRegion(roiPre[1].data, roi, checked)

\* both modes active; a point was removed that re alone would have kept, and
\* another point of the same record survives
C5_DeletedByEitherMode ==
    /\ RegionDeleted
    /\ checked = {"re", "im"}
    /\ \E f \in DOMAIN active_data :
          /\ active_data[f].freq # <<>>
          /\ Len(active_data[f].freq) < Len(roiPre[1].data[f].freq)
          /\ InRegion(roiPre[1].data[f], roi, {"re"}) = {}

(* C6: with the amplitude mode active, the value held against [y_min,       *)
(* y_max] is 0.2 / freq * (re^2 + im^2): a region deletion removes exactly  *)
(* the positions whose amplitude so defined lies in the region.             *)
C6_AmplitudeAsDerived ==
    (RegionDeleted /\ checked = {"amp"})
        => Seqs(active_data) = WithoutRegion(roiPre[1].data, roi, checked)

(* C7: every record of the active set has freq, re, im and var of one       *)
(* length and only positive frequencies.                                    *)
C7_EqualLengthsPositiveFreq ==
    \A f \in DOMAIN active_data :
        /\ Len(active_data[f].re) = Len(active_data[f].freq)
        /\ Len(active_data[f].im) = Len(active_data[f].freq)
        /\ Len(active_data[f].var) = Len(active_data[f].freq)
        /\ \A i \in 1..Len(active_data[f].freq) : active_data[f].freq[i] > 0

\* a record whose document held a non-positive frequency, restored by undo
C7_FilteredRecordRestored ==
    /\ status.msg = "Undo successful."
    /\ \E f \in DOMAIN active_data :
          /\ active_data[f].freq # <<>>
          /\ \E i \in 1..Len(active_data[f].original_json.Data.Freq) :
                active_data[f].original_json.Data.Freq[i] <= 0

(* C8: a click whose index is at or past the end of the record's arrays     *)
(* raises IndexError and changes no sequence of any record.                 *)
C8_ClickPastEndChangesNothing ==
    [][\A f \in Files, i \in 0..(MaxClickIdx + 1) :
          (/\ OnPointClicked(f, i)
           /\ i >= Len(active_data[f].freq))
          => /\ raised' = "IndexError"
             /\ Seqs(active_data') = Seqs(active_data)]_vars

\* a click has raised on a record that still holds points
C8_ClickRaised ==
    /\ raised = "IndexError"
    /\ \E f \in DOMAIN active_data : active_data[f].freq # <<>>

(* C9: undo on an empty stack raises nothing, shows "Nothing to Undo." and  *)
(* leaves the active record set and the stack as they were.                 *)
C9_UndoOnEmptyStack ==
    [][(UndoLastAction /\ undo_stack = <<>>)
       => /\ raised' = NoException
          /\ status' = Msg("Nothing to Undo.")
          /\ active_data' = active_data
          /\ undo_stack' = <<>>]_vars

\* nothing to undo was reported while records were loaded
C9_NothingToUndoShown ==
    /\ status = Msg("Nothing to Undo.")
    /\ undo_stack = <<>>
    /\ DOMAIN active_data # {}

(* C10: a region deletion whose region holds no point of any record (for    *)
(* the active modes) reports no deleted point, raises nothing and leaves    *)
(* every sequence as it was.                                                *)
C10_EmptyRegionDeletesNothing ==
    (RegionDeleted /\ \A f \in DOMAIN roiPre[1].data :
                         InRegion(roiPre[1].data[f], roi, checked) = {})
        => /\ status = Msg("No points found inside the selection box.")
           /\ raised = NoException
           /\ Seqs(active_data) = Seqs(roiPre[1].data)

(* C11: a click on the point at index i of record f, with 0 <= i < len(freq), *)
(* raises nothing and removes exactly position i from freq, re, im and var  *)
(* of f, the rest keeping its order; every other record stays as it was.    *)
C11_ClickRemovesOnePoint ==
    [][\A f \in Files, i \in 0..MaxClickIdx :
          (/\ OnPointClicked(f, i)
           /\ i < Len(active_data[f].freq))
          => /\ raised' = NoException
             /\ DOMAIN active_data' = DOMAIN active_data
             /\ Seqs(active_data')[f] = <<Survivors(active_data[f].freq, {i + 1}),
                                          Survivors(active_data[f].re, {i + 1}),
                                          Survivors(active_data[f].im, {i + 1}),
                                          Survivors(active_data[f].var, {i + 1})>>
             /\ \A g \in DOMAIN active_data \ {f} : active_data'[g] = active_data[g]]_vars

\* a point was clicked away from a record that keeps another, next to a second record
C11_PointClickedAway ==
    /\ status = Msg("Point deleted. (Ctrl+Z to Undo)")
    /\ undo_stack # <<>>
    /\ Cardinality(DOMAIN active_data) = 2
    /\ \E f \in DOMAIN active_data :
          /\ active_data[f].freq # <<>>
          /\ f \in DOMAIN Last(undo_stack)
          /\ Len(Last(undo_stack)[f].freq) = Len(active_data[f].freq) + 1

(* C12: after a save in which every write succeeds, loading the same files  *)
(* under the same component gives records with the freq, re, im and var     *)
(* sequences that were saved.                                               *)
C12_SaveThenLoadRoundTrip ==
    [][\A order \in Orders(DOMAIN active_data) :
          (/\ DOMAIN active_data # {}
           /\ SaveChangesToDisk(order, 0, FALSE))
          => Seqs(LoadSelectedDataIntoMemory(DOMAIN active_data, whattoplot))'
                = Seqs(active_data)]_vars

\* a record that lost a point and kept another is on disk as it is in memory
C12_SavedAfterDeletion ==
    /\ dialog.kind = "information"
    /\ \E f \in DOMAIN active_data :
          /\ f \in DOMAIN disk
          /\ disk[f] = JsonDump(active_data[f].original_json)
          /\ active_data[f].freq # <<>>
          /\ active_data[f].freq = active_data[f].original_json.Data.Freq
          /\ Len(active_data[f].freq) < Len(LoadRecord(JsonLoad(Directory[f]), whattoplot).freq)

(* C13: when the write of the j-th file of a save fails, the files before   *)
(* it hold their new text, the files after it hold the text they had, the   *)
(* error is shown in a critical message box and no success is reported.     *)
C13_FailedWriteStopsBatch ==
    [][\A order \in Orders(DOMAIN active_data), j \in 1..Cardinality(DOMAIN active_data),
          torn \in BOOLEAN :
          SaveChangesToDisk(order, j, torn)
          => /\ \A k \in 1..(j - 1) :
                   /\ order[k] \in DOMAIN disk'
                   /\ disk'[order[k]] =
                          JsonDump(WrittenJson(active_data[order[k]], whattoplot))
             /\ \A k \in (j + 1)..Len(order) :
                   /\ order[k] \in DOMAIN disk' <=> order[k] \in DOMAIN disk
                   /\ order[k] \in DOMAIN disk => disk'[order[k]] = disk[order[k]]
             /\ dialog' = SaveErrorDialog]_vars

\* a save of two edited records has failed at the second: the first is on disk
\* as edited, the second as it was
C13_SecondWriteFailed ==
    /\ dialog = SaveErrorDialog
    /\ Cardinality(DOMAIN active_data) = 2
    /\ \E f, g \in DOMAIN active_data :
          /\ f # g
          /\ disk[f] = JsonDump(active_data[f].original_json)
          /\ disk[f] # Directory[f]
          /\ disk[g] = Directory[g]
          /\ active_data[g].original_json # JsonLoad(Directory[g])

(* C14: a load makes a record of every selected file that is there, is a   *)
(* JSON document and holds Data.Freq and Data.Z[component].Re, Im and Var   *)
(* of one length; every other selected file gives no record and is named   *)
(* in an error message.                                                     *)
C14_LoadSkipsAndReports ==
    [][(\/ \E sel \in SUBSET LoadFiles : OnFileSelectionChanged(sel)
        \/ \E label \in ModelLabels : HandleComponentChange(label))
       => \A f \in selected' :
             IF WellFormedFor(f, whattoplot')
             THEN f \in DOMAIN active_data'
             ELSE f \notin DOMAIN active_data' /\ f \in printed']_vars

(* C15: a deletion that removes no point (a region deletion that matches    *)
(* nothing, or runs with the box hidden or no record loaded, or a click     *)
(* that fails) leaves the undo stack as it was.                             *)
C15_NoRemovalNoSnapshot ==
    [][(/\ \/ DeletePointsInRoi
           \/ \E f \in Files, i \in 0..MaxClickIdx : OnPointClicked(f, i)
        /\ Seqs(active_data') = Seqs(active_data))
       => undo_stack' = undo_stack]_vars

(* C16: every document on disk loads under every component it holds: for    *)
(* each component of Data.Z, Re, Im and Var are as long as Data.Freq.       *)
C16_SavedDocumentLoadsUnderEveryComponent ==
    \A f \in DOMAIN disk :
        Parses(disk[f]) =>
            \A c \in DOMAIN JsonLoad(disk[f]).Data.Z :
                /\ Len(JsonLoad(disk[f]).Data.Z[c].Re) = Len(JsonLoad(disk[f]).Data.Freq)
                /\ Len(JsonLoad(disk[f]).Data.Z[c].Im) = Len(JsonLoad(disk[f]).Data.Freq)
                /\ Len(JsonLoad(disk[f]).Data.Z[c].Var) = Len(JsonLoad(disk[f]).Data.Freq)

(* C17: in the viewer, segment_number is the scrollbar's value and at most  *)
(* its maximum max(0, num_samples // window_length - 1), and the segment    *)
(* starts inside the samples loaded.                                        *)
C17_SegmentWithinBuffer ==
    /\ segment_number = sb_value
    /\ segment_number <= sb_max
    /\ sb_max = Max(0, (num_samples \div window_length) - 1)
    /\ num_samples > 0 => segment_number * window_length < num_samples

(* C18: in segment mode every sample index i in [0, num_samples) lies in    *)
(* the segment of some scrollbar position s in [0, maximum]:                *)
(* s * window_length <= i < (s + 1) * window_length.  (Only                 *)
(* s = i div window_length can satisfy the inequalities.)                   *)
C18_EverySampleDisplayable ==
    ~plot_all =>
        \A i \in 0..(num_samples - 1) :
            \E s \in {i \div window_length} \cap 0..sb_max :
                s * window_length <= i /\ i < (s + 1) * window_length

(* C19: whenever update_plot_data_only reaches the curve update, the x axis *)
(* it builds is as long as the chunk get_data_slice returned.               *)
C19_AxisAsLongAsChunk ==
    plotted.reached => plotted.x_len = plotted.chunk_len

=============================================================================
